---- MODULE Spec2Model ----
(***************************************************************************)
(* A model of bravado/mapping/model.py: model types synthesized from a     *)
(* Swagger '#/definitions' mapping, their construction (set_props), their  *)
(* equality (compare), their flattening (create_flat_dict), and the two    *)
(* passes over the raw spec (tag_models, fix_malformed_model_refs).        *)
(*                                                                         *)
(* Python values are tagged records [k |-> kind, v |-> payload]:           *)
(*   "null"  None                                                          *)
(*   "prim"  a str/int leaf (payload: a string)                            *)
(*   "list"  a list (payload: a sequence of values)                        *)
(*   "dict"  a plain dict (payload: a function from keys to values)        *)
(*   "model" an instance of a generated type (payload: its __dict__;       *)
(*           cls: the name of its type)                                    *)
(*   "AttributeError" a raised AttributeError (payload: what it names)     *)
(* Documents are trees, as json.load builds them: no aliasing, no cycles.  *)
(* Property names are ordinary names: none is the name of an attribute     *)
(* that Python or the generated type already defines on an instance        *)
(* (__dict__, __class__, _required, ...).                                  *)
(***************************************************************************)
EXTENDS Integers, Sequences, FiniteSets, TLC

VARIABLES
    model_name,      \* set_props: the generated type being instantiated
    kwargs,          \* set_props: the keyword arguments of the call
    instance,        \* the instance under construction / constructed
    raised,          \* the exception the last call raised (or NoError)
    flat,            \* create_flat_dict: what the call returned
    ipc,             \* "new" | "built" | "ctor_failed" | "flat" | "flat_failed"
    first,           \* compare: left operand
    second,          \* compare: right operand
    eq_result,       \* compare: what the call returned
    epc,             \* "new" | "compared"
    definitions_spec,\* build_models: its argument
    models,          \* build_models: the dict it returns
    build_order,     \* build_models: the order iteritems() yielded the keys in
    bpc,             \* "new" | "done" | "KeyError"
    tag_dict,        \* tag_models: spec_dict (mutated in place)
    tag_orig,        \* tag_models: spec_dict as it was before the call
    tpc,             \* "new" | "tagged"
    ref_spec,        \* fix_malformed_model_refs: spec (mutated in place)
    ref_orig,        \* fix_malformed_model_refs: spec before the first call
    ref_prev,        \* fix_malformed_model_refs: spec before the last call
    runs             \* fix_malformed_model_refs: calls made so far

inst_vars  == <<model_name, kwargs, instance, raised, flat, ipc>>
eq_vars    == <<first, second, eq_result, epc>>
build_vars == <<definitions_spec, models, build_order, bpc>>
tag_vars   == <<tag_dict, tag_orig, tpc>>
ref_vars   == <<ref_spec, ref_orig, ref_prev, runs>>
vars == <<inst_vars, eq_vars, build_vars, tag_vars, ref_vars>>

---------------------------------------------------------------------------
(* Bounds of the model. *)

\* longest list given as a property value (and longest list nested in one)
MaxLen == 2
\* deepest nesting of mappings/sequences around a leaf of the raw spec
MaxDepth == 3
\* most calls of fix_malformed_model_refs on one document
MaxRuns == 2

---------------------------------------------------------------------------
(* Python values *)

Null        == [k |-> "null", v |-> "null"]
Prim(s)     == [k |-> "prim", v |-> s]
ListV(q)    == [k |-> "list", v |-> q]
DictV(d)    == [k |-> "dict", v |-> d]
Inst(c, d)  == [k |-> "model", cls |-> c, v |-> d]
AttributeError(what) == [k |-> "AttributeError", v |-> what]
NoError     == [k |-> "none", v |-> "none"]
EmptyDict   == [x \in {} |-> Null]

\* hasattr(x, '__dict__'): only instances of generated types expose one here
HasDict(x) == x.k = "model"
IsNone(x)  == x.k = "null"
IsList(x)  == x.k = "list"
IsError(x) == x.k = "AttributeError"

\* d without key key (dict.pop / the filter of a dict comprehension)
Without(d, key) == [x \in (DOMAIN d) \ {key} |-> d[x]]
\* d with d[key] = val (item assignment / setattr)
With(d, key, val) == [x \in (DOMAIN d) \cup {key} |-> IF x = key THEN val ELSE d[x]]

MODEL_MARKER == "x-model"

\* "#/definitions/{0}".format(name)
RefName(name) == "#/definitions/" \o name

---------------------------------------------------------------------------
(* bravado.swagger_type: the primitive type mapper the module consumes.    *)

\* swagger_type.get_swagger_types(props): property name -> declared type
get_swagger_types(props) ==
    [p \in DOMAIN props |->
        IF "type" \in DOMAIN props[p] THEN props[p]["type"] ELSE props[p]["$ref"]]

\* swagger_type.swagger_to_py_type(t): the host type of a declared type
swagger_to_py_type(t) ==
    CASE t = "string"  -> "str"
      [] t = "integer" -> "int"
      [] t = "array"   -> "list"
      [] OTHER         -> t

\* swagger_type.get_instance(py_type): the default value of a host type
get_instance(py_type) == IF py_type = "list" THEN ListV(<<>>) ELSE Null

---------------------------------------------------------------------------
(* create_model_type *)

KeyError(key) == [k |-> "KeyError", v |-> key]
IsType(t)     == t.k = "type"

\* model_spec.get('required'): None when the key is absent
GetRequired(model_spec) ==
    IF "required" \in DOMAIN model_spec
    THEN [k |-> "names", v |-> model_spec["required"]]
    ELSE Null

\* The generated type: its name and the two class attributes the other
\* functions read.  model_spec['properties'] raises KeyError when absent.
create_model_type(name, model_spec) ==
    IF "properties" \notin DOMAIN model_spec
    THEN KeyError("properties")
    ELSE [k              |-> "type",
          v              |-> name,
          _swagger_types |-> get_swagger_types(model_spec["properties"]),
          _required      |-> GetRequired(model_spec)]

---------------------------------------------------------------------------
(* The '#/definitions' the instances of Spec and SpecEq are built from. *)

PetProperties ==
    [name  |-> [type |-> "string"],
     tags  |-> [type |-> "array"],
     owner |-> ("$ref" :> "Tag")]

Definitions ==
    [Pet |-> [properties |-> PetProperties, required |-> {"name", "owner"}],
     Cat |-> [properties |-> PetProperties],
     Tag |-> [properties |-> [name |-> [type |-> "string"]],
              required   |-> {"name"}]]

ModelTypes == [n \in DOMAIN Definitions |-> create_model_type(n, Definitions[n])]

\* type(model): the generated type of an instance
TypeOf(model) == ModelTypes[model.cls]

---------------------------------------------------------------------------
(* set_props *)

\* The for loop of set_props over the declared properties still to visit:
\* a supplied value is taken verbatim and its name removed from arg_keys,
\* a missing one gets the default of its host type.
RECURSIVE SetPropsLoop(_, _, _, _, _)
SetPropsLoop(types, todo, kw, arg_keys, d) ==
    IF todo = {} THEN [d |-> d, arg_keys |-> arg_keys]
    ELSE LET prop_name   == CHOOSE p \in todo : TRUE
             python_type == swagger_to_py_type(types[prop_name])
             supplied    == prop_name \in arg_keys
             prop_value  == IF supplied THEN kw[prop_name]
                            ELSE get_instance(python_type)
         IN  SetPropsLoop(types, todo \ {prop_name}, kw,
                          IF supplied THEN arg_keys \ {prop_name} ELSE arg_keys,
                          With(d, prop_name, prop_value))

\* set_props with the bug of never removing a consumed name from arg_keys
set_props_keeps_arg_keys(model, kw) ==
    LET types == TypeOf(model)._swagger_types
        r     == SetPropsLoop(types, DOMAIN types, kw, DOMAIN kw, model.v)
    IN  [instance |-> Inst(model.cls, r.d),
         raised   |-> IF DOMAIN kw # {} THEN AttributeError(DOMAIN kw)
                      ELSE NoError]

\* set_props with the bug of assigning only the supplied properties
set_props_without_defaults(model, kw) ==
    LET types == TypeOf(model)._swagger_types
        r     == SetPropsLoop(types, DOMAIN types \cap DOMAIN kw, kw, DOMAIN kw, model.v)
    IN  [instance |-> Inst(model.cls, r.d),
         raised   |-> IF r.arg_keys # {} THEN AttributeError(r.arg_keys)
                      ELSE NoError]

\* set_props(model, kwargs): the instance after the call and what it raised
set_props(model, kw) ==
    LET types == TypeOf(model)._swagger_types
        r     == SetPropsLoop(types, DOMAIN types, kw, DOMAIN kw, model.v)
    IN  [instance |-> Inst(model.cls, r.d),
         raised   |-> IF r.arg_keys # {} THEN AttributeError(r.arg_keys)
                      ELSE NoError]

---------------------------------------------------------------------------
(* create_flat_dict *)

\* the test of line 151 with the bug of never finding a name required
RequiredHasNever(model, key) == FALSE

\* model._required and k in model._required
RequiredHas(model, key) ==
    LET req == TypeOf(model)._required
    IN  IF req.k = "null" THEN FALSE ELSE key \in req.v

\* ord: the order in which iteritems() yields the keys of a __dict__ (a dict
\* of Python 2 yields its keys in an order the caller does not control).
RECURSIVE create_flat_dict(_, _)
RECURSIVE FlatList(_, _)
RECURSIVE FlatLoop(_, _, _, _)

\* the list comprehension with the bug of keeping the None elements
RECURSIVE FlatListKeepsNone(_, _)
FlatListKeepsNone(q, ord) ==
    IF q = <<>> THEN ListV(<<>>)
    ELSE LET x == create_flat_dict(Head(q), ord)
         IN  IF IsError(x) THEN x
             ELSE LET rest == FlatListKeepsNone(Tail(q), ord)
                  IN  IF IsError(rest) THEN rest ELSE ListV(<<x>> \o rest.v)

\* [create_flat_dict(x) for x in v if x is not None], left to right; an
\* exception raised for an element ends the comprehension.
FlatList(q, ord) ==
    IF q = <<>> THEN ListV(<<>>)
    ELSE IF IsNone(Head(q)) THEN FlatList(Tail(q), ord)
    ELSE LET x == create_flat_dict(Head(q), ord)
         IN  IF IsError(x) THEN x
             ELSE LET rest == FlatList(Tail(q), ord)
                  IN  IF IsError(rest) THEN rest ELSE ListV(<<x>> \o rest.v)

\* The for loop of create_flat_dict from position i of ord, model_dict being
\* the copy built so far.
FlatLoop(model, ord, i, model_dict) ==
    IF i > Len(ord) THEN DictV(model_dict)
    ELSE IF ord[i] \notin DOMAIN model.v THEN FlatLoop(model, ord, i + 1, model_dict)
    ELSE LET key == ord[i]
             val == model.v[key]
         IN  IF IsList(val)
             THEN LET r == FlatList(val.v, ord)
                  IN  IF IsError(r) THEN r
                      ELSE FlatLoop(model, ord, i + 1, With(model_dict, key, r))
             ELSE IF IsNone(val)
             THEN IF RequiredHas(model, key)
                  THEN AttributeError(key)
                  ELSE FlatLoop(model, ord, i + 1, Without(model_dict, key))
             ELSE LET r == create_flat_dict(val, ord)
                  IN  IF IsError(r) THEN r
                      ELSE FlatLoop(model, ord, i + 1, With(model_dict, key, r))

create_flat_dict(model, ord) ==
    IF ~HasDict(model) THEN model
    ELSE FlatLoop(model, ord, 1, model.v)


---------------------------------------------------------------------------
(* Inputs of Spec: the calls Type(kwargs) and the values they pass. *)

\* all sequences over S of length at most n
RECURSIVE SeqsUpTo(_, _)
SeqsUpTo(S, n) ==
    IF n <= 0 THEN {<<>>}
    ELSE LET shorter == SeqsUpTo(S, n - 1)
         IN  shorter \cup {Append(q, x) : q \in shorter, x \in S}

\* Tag(name='T') and Tag(): what set_props leaves in their __dict__
TagOK   == Inst("Tag", [name |-> Prim("T")])
TagNull == Inst("Tag", [name |-> Null])

\* lists nested in a list are one shorter than the list that holds them
InnerLists == {ListV(q) : q \in SeqsUpTo({Null, TagOK, TagNull}, MaxLen - 1)}
Lists == {ListV(q) :
            q \in SeqsUpTo({Null, Prim("x"), TagOK, TagNull} \cup InnerLists, MaxLen)}

\* The names a caller passes and the values tried for each.  'model' and
\* 'self' are never keys of kwargs: set_props(model, kwargs) and the
\* __init__ lambda bind those names themselves, and Python rejects such a
\* call with TypeError before either body runs.
ArgValues(cls) ==
    [name  |-> {Null, Prim("Rex")},
     tags  |-> IF cls = "Pet" THEN {Null} \cup Lists ELSE {Null, ListV(<<TagOK>>)},
     owner |-> {Null, TagNull, TagOK, ListV(<<Null, TagOK>>)},
     bogus |-> {Prim("x")},
     extra |-> {Null}]

\* every dict with keys among names and values among those tried for each
RECURSIVE KwargsOver(_, _)
KwargsOver(names, vals) ==
    IF names = {} THEN {EmptyDict}
    ELSE LET n    == CHOOSE x \in names : TRUE
             rest == KwargsOver(names \ {n}, vals)
         IN  rest \cup {With(f, n, val) : f \in rest, val \in vals[n]}

\* the orders a dict over the property names may be iterated in
Orders ==
    LET names == DOMAIN PetProperties
    IN  {q \in [1..Cardinality(names) -> names] :
            \A i, j \in DOMAIN q : i # j => q[i] # q[j]}

---------------------------------------------------------------------------
(* What each specification leaves alone. *)

InstIdle ==
    /\ model_name = "" /\ kwargs = EmptyDict /\ instance = Null
    /\ raised = NoError /\ flat = Null /\ ipc = "idle"
EqIdle ==
    /\ first = Null /\ second = Null /\ eq_result = FALSE /\ epc = "idle"
BuildIdle ==
    /\ definitions_spec = EmptyDict /\ models = EmptyDict
    /\ build_order = <<>> /\ bpc = "idle"
TagIdle ==
    /\ tag_dict = EmptyDict /\ tag_orig = EmptyDict /\ tpc = "idle"
RefIdle ==
    /\ ref_spec = Null /\ ref_orig = Null /\ ref_prev = Null /\ runs = 0

---------------------------------------------------------------------------
(* Spec: Type(kwargs), then instance._flat_dict() *)

Init ==
    /\ model_name \in {"Pet", "Tag"}
    /\ kwargs \in KwargsOver(DOMAIN ArgValues(model_name), ArgValues(model_name))
    /\ instance = Inst(model_name, EmptyDict)
    /\ raised = NoError
    /\ flat = Null
    /\ ipc = "new"
    /\ EqIdle /\ BuildIdle /\ TagIdle /\ RefIdle

\* __init__: set_props(self, kwargs)
Construct ==
    /\ ipc = "new"
    /\ LET r == set_props(instance, kwargs)
       IN  /\ instance' = r.instance
           /\ raised' = r.raised
           /\ ipc' = IF IsError(r.raised) THEN "ctor_failed" ELSE "built"
    /\ UNCHANGED <<model_name, kwargs, flat>>
    /\ UNCHANGED <<eq_vars, build_vars, tag_vars, ref_vars>>

\* _flat_dict: create_flat_dict(self)
Flatten ==
    /\ ipc = "built"
    /\ \E ord \in Orders :
         LET r == create_flat_dict(instance, ord)
         IN  /\ raised' = IF IsError(r) THEN r ELSE NoError
             /\ flat' = IF IsError(r) THEN Null ELSE r
             /\ ipc' = IF IsError(r) THEN "flat_failed" ELSE "flat"
    /\ UNCHANGED <<model_name, kwargs, instance>>
    /\ UNCHANGED <<eq_vars, build_vars, tag_vars, ref_vars>>

Next == Construct \/ Flatten

Spec == Init /\ [][Next]_vars


---------------------------------------------------------------------------
(* Claims about set_props and create_flat_dict, checked under Spec *)

Declared == DOMAIN Definitions[model_name]["properties"]
Unknown  == (DOMAIN kwargs) \ Declared
Constructed == ipc \in {"built", "ctor_failed", "flat", "flat_failed"}

\* C1: construction fails with the unknown-property error (the AttributeError
\* of set_props) if and only if some supplied argument name is not a declared
\* property, and the error names exactly the supplied names that are not
\* declared, however many declared names were supplied with them.
C1_UnknownArgumentsRejected ==
    Constructed =>
        /\ (ipc = "ctor_failed") <=> (Unknown # {})
        /\ ipc = "ctor_failed" => IsError(raised) /\ raised.v = Unknown

\* a call that mixed declared names with two unknown ones has failed
C1_Witness ==
    /\ ipc = "ctor_failed"
    /\ Cardinality(Unknown) = 2
    /\ Cardinality((DOMAIN kwargs) \cap Declared) >= 2

\* C2: construction with only declared names always succeeds, also when a
\* required property is omitted or passed as None, and the instance then has
\* exactly one attribute per declared property: the supplied value verbatim,
\* or else the type mapper's default for the property's declared type.
C2_DeclaredArgumentsAccepted ==
    (Constructed /\ Unknown = {}) =>
        /\ ipc # "ctor_failed"
        /\ raised.k = "AttributeError" => ipc = "flat_failed"
        /\ DOMAIN instance.v = Declared
        /\ \A p \in Declared :
             instance.v[p] =
                IF p \in DOMAIN kwargs THEN kwargs[p]
                ELSE get_instance(swagger_to_py_type(
                        get_swagger_types(Definitions[model_name]["properties"])[p]))

\* a Pet built without its required name and with its required owner
\* passed as None
C2_Witness ==
    /\ ipc = "built"
    /\ model_name = "Pet"
    /\ RequiredHas(instance, "name") /\ RequiredHas(instance, "owner")
    /\ "name" \notin DOMAIN kwargs
    /\ "owner" \in DOMAIN kwargs /\ IsNone(kwargs["owner"])
    /\ IsNone(instance.v["name"]) /\ IsNone(instance.v["owner"])
    /\ "tags" \in DOMAIN kwargs /\ instance.v["tags"] = kwargs["tags"]

\* p is in the required set of the model of instance x
IsRequired(x, p) ==
    /\ "required" \in DOMAIN Definitions[x.cls]
    /\ p \in Definitions[x.cls]["required"]

\* The names of the required attributes that are None in x or in a model
\* instance nested anywhere in x.
RECURSIVE RequiredNulls(_)
RequiredNulls(x) ==
    IF HasDict(x)
    THEN {p \in DOMAIN x.v : IsNone(x.v[p]) /\ IsRequired(x, p)}
         \cup UNION {RequiredNulls(x.v[p]) : p \in DOMAIN x.v}
    ELSE IF IsList(x)
    THEN UNION {RequiredNulls(x.v[i]) : i \in DOMAIN x.v}
    ELSE {}

\* No key of the mapping x, or of a model or mapping nested in x, maps to None.
RECURSIVE NoNullValues(_)
NoNullValues(x) ==
    IF HasDict(x) \/ x.k = "dict"
    THEN \A p \in DOMAIN x.v : ~IsNone(x.v[p]) /\ NoNullValues(x.v[p])
    ELSE IF IsList(x)
    THEN \A i \in DOMAIN x.v : NoNullValues(x.v[i])
    ELSE TRUE

\* C3: flattening fails with the required-field-null error, naming the
\* property, whenever an attribute of the instance or of a model instance
\* nested in it is None and required by its model; otherwise it succeeds
\* and no key of the output maps to None.
C3_RequiredNullsRejected ==
    ipc \in {"flat", "flat_failed"} =>
        IF RequiredNulls(instance) # {}
        THEN ipc = "flat_failed" /\ IsError(raised) /\ raised.v \in RequiredNulls(instance)
        ELSE ipc = "flat" /\ NoNullValues(flat)

\* The model instances flattening reaches from x: x itself, the instances
\* that are attribute values of a reached instance, and those that are
\* elements of a list-valued attribute of one (not those inside a list that
\* is itself an element of a list).
RECURSIVE Reached(_)
Reached(x) ==
    IF ~HasDict(x) THEN {}
    ELSE {x}
         \cup UNION {Reached(x.v[p]) : p \in DOMAIN x.v}
         \cup UNION {UNION {Reached(x.v[p].v[i]) : i \in DOMAIN x.v[p].v} :
                        p \in {a \in DOMAIN x.v : IsList(x.v[a])}}

ReachedRequiredNulls(x) ==
    UNION {{p \in DOMAIN y.v : IsNone(y.v[p]) /\ IsRequired(y, p)} : y \in Reached(x)}

\* No key of the output mapping x, of a mapping that is a value in it, or of
\* a mapping that is an element of a list-valued entry of one, maps to None.
RECURSIVE NoNullEntries(_)
NoNullEntries(x) ==
    IF x.k # "dict" THEN TRUE
    ELSE \A p \in DOMAIN x.v :
            /\ ~IsNone(x.v[p])
            /\ NoNullEntries(x.v[p])
            /\ IsList(x.v[p]) => \A i \in DOMAIN x.v[p].v : NoNullEntries(x.v[p].v[i])

\* C3 as amended: flattening fails with the required-field-null error,
\* naming the property, whenever an attribute of an instance it reaches is
\* None and required by that instance's model; otherwise it succeeds, every
\* mapping of the output stands for a reached instance and none of their
\* keys maps to None.
C3_ReachedRequiredNullsRejected ==
    ipc \in {"flat", "flat_failed"} =>
        IF ReachedRequiredNulls(instance) # {}
        THEN /\ ipc = "flat_failed"
             /\ IsError(raised)
             /\ raised.v \in ReachedRequiredNulls(instance)
        ELSE ipc = "flat" /\ flat.k = "dict" /\ NoNullEntries(flat)

\* flattening a Pet failed on the required name of a Tag among its tags
C3_Witness ==
    /\ ipc = "flat_failed"
    /\ model_name = "Pet"
    /\ ~IsNone(instance.v["name"])
    /\ instance.v["owner"] = TagOK
    /\ instance.v["tags"] = ListV(<<TagOK, TagNull>>)
    /\ raised.v = "name"

\* What C4 says a value flattens to: None elements dropped, model instances
\* turned into plain mappings, nested sequences treated the same way.
RECURSIVE ElementWiseFlat(_)
ElementWiseFlat(x) ==
    IF HasDict(x)
    THEN DictV([p \in {a \in DOMAIN x.v : ~IsNone(x.v[a])} |-> ElementWiseFlat(x.v[p])])
    ELSE IF IsList(x)
    THEN LET kept == SelectSeq(x.v, LAMBDA e : ~IsNone(e))
         IN  ListV([i \in DOMAIN kept |-> ElementWiseFlat(kept[i])])
    ELSE x

\* C4: the flattened value of a sequence-valued property is the sequence, in
\* the original order, of the flattened forms of its non-None elements, an
\* element that is itself a sequence being flattened element-wise as well.
C4_SequencesFlattenedElementWise ==
    ipc = "flat" =>
        \A p \in DOMAIN instance.v :
            IsList(instance.v[p]) => flat.v[p] = ElementWiseFlat(instance.v[p])


\* The plain form of a value: an instance becomes the mapping of its
\* non-None attributes, a list-valued attribute the list of the plain forms
\* of its non-None elements; every value without a __dict__, a list that is
\* an element of a list included, is its own plain form.
RECURSIVE PlainForm(_)
PlainForm(x) ==
    IF ~HasDict(x) THEN x
    ELSE DictV([p \in {a \in DOMAIN x.v : ~IsNone(x.v[a])} |->
                  IF IsList(x.v[p])
                  THEN LET kept == SelectSeq(x.v[p].v, LAMBDA e : ~IsNone(e))
                       IN  ListV([i \in DOMAIN kept |-> PlainForm(kept[i])])
                  ELSE PlainForm(x.v[p])])

\* C4 as amended: when flattening succeeds, the flattened value of a
\* sequence-valued property is the sequence, in the original order, of the
\* plain forms of its non-None elements: None elements are dropped, model
\* instances become plain mappings, and an element that is itself a
\* sequence is kept as it is, its None and model-instance elements included.
C4_TopLevelElementsFlattened ==
    ipc = "flat" =>
        \A p \in DOMAIN instance.v :
            IsList(instance.v[p]) =>
                LET kept == SelectSeq(instance.v[p].v, LAMBDA e : ~IsNone(e))
                IN  /\ flat.v[p] = ListV([i \in DOMAIN kept |-> PlainForm(kept[i])])
                    /\ \A i \in DOMAIN kept :
                          /\ HasDict(kept[i]) => flat.v[p].v[i].k = "dict"
                          /\ IsList(kept[i]) => flat.v[p].v[i] = kept[i]

\* a flattened Pet with a None dropped from one list and, in another, a
\* nested list kept with its None beside a Tag turned into a mapping
C4_Witness ==
    /\ ipc = "flat"
    /\ instance.v["owner"] = ListV(<<Null, TagOK>>)
    /\ instance.v["tags"] = ListV(<<ListV(<<Null>>), TagOK>>)
    /\ flat.v["owner"] = ListV(<<DictV([name |-> Prim("T")])>>)
    /\ flat.v["tags"] = ListV(<<ListV(<<Null>>), DictV([name |-> Prim("T")])>>)


---------------------------------------------------------------------------
(* compare *)

\* norm_dict(d): d without its '_raw' key
norm_dict(d) == [key \in {x \in DOMAIN d : x # "_raw"} |-> d[key]]

\* compare with the bug of leaving the '_raw' keys in
RECURSIVE compare_keeps_raw(_, _)
RECURSIVE PyEqKeepsRaw(_, _)
PyEqKeepsRaw(a, b) ==
    IF HasDict(a) THEN compare_keeps_raw(a, b)
    ELSE IF HasDict(b) THEN compare_keeps_raw(b, a)
    ELSE IF IsList(a) /\ IsList(b)
    THEN /\ Len(a.v) = Len(b.v)
         /\ \A i \in DOMAIN a.v : PyEqKeepsRaw(a.v[i], b.v[i])
    ELSE a.k = b.k /\ a.v = b.v
compare_keeps_raw(a, b) ==
    IF ~HasDict(a) \/ ~HasDict(b) THEN FALSE
    ELSE /\ DOMAIN a.v = DOMAIN b.v
         /\ \A key \in DOMAIN a.v : PyEqKeepsRaw(a.v[key], b.v[key])

RECURSIVE compare(_, _)
RECURSIVE PyEq(_, _)

\* a == b as Python evaluates it on the values of a __dict__: a generated
\* type answers with its __eq__ (compare); a built-in value facing an
\* instance defers to the instance's __eq__; two lists are equal when they
\* have the same length and equal elements; None and leaves by value.
PyEq(a, b) ==
    IF HasDict(a) THEN compare(a, b)
    ELSE IF HasDict(b) THEN compare(b, a)
    ELSE IF IsList(a) /\ IsList(b)
    THEN /\ Len(a.v) = Len(b.v)
         /\ \A i \in DOMAIN a.v : PyEq(a.v[i], b.v[i])
    ELSE a.k = b.k /\ a.v = b.v

\* compare(first, second); the == of two dicts: the same keys, equal values
compare(a, b) ==
    IF ~HasDict(a) \/ ~HasDict(b) THEN FALSE
    ELSE LET da == norm_dict(a.v)
             db == norm_dict(b.v)
         IN  /\ DOMAIN da = DOMAIN db
             /\ \A key \in DOMAIN da : PyEq(da[key], db[key])

---------------------------------------------------------------------------
(* SpecEq: first == second on instances and foreign values *)

\* an instance d with the bookkeeping attribute _raw set to raw
WithRaw(x, raw) == Inst(x.cls, With(x.v, "_raw", raw))

Owners == {Null, TagOK, WithRaw(TagOK, Prim("r1"))}

PlainInstances ==
    {Inst(c, [name |-> n, tags |-> t, owner |-> o]) :
        c \in {"Pet", "Cat"}, n \in {Null, Prim("Rex")},
        t \in {ListV(<<>>), ListV(<<TagOK, Null>>)}, o \in Owners}

Operands ==
    PlainInstances
    \cup {WithRaw(x, Prim(r)) : x \in PlainInstances, r \in {"r1", "r2"}}
    \cup {TagOK, TagNull, Null, Prim("Rex"), ListV(<<>>)}

InitEq ==
    /\ first \in Operands
    /\ second \in Operands
    /\ eq_result = FALSE
    /\ epc = "new"
    /\ InstIdle /\ BuildIdle /\ TagIdle /\ RefIdle

\* __eq__: compare(self, other)
Compare ==
    /\ epc = "new"
    /\ eq_result' = compare(first, second)
    /\ epc' = "compared"
    /\ UNCHANGED <<first, second>>
    /\ UNCHANGED <<inst_vars, build_vars, tag_vars, ref_vars>>

NextEq == Compare

SpecEq == InitEq /\ [][NextEq]_vars

\* x with the '_raw' attribute of every instance in it removed, and every
\* instance reduced to its attribute mapping (its type forgotten)
RECURSIVE Visible(_)
Visible(x) ==
    IF HasDict(x)
    THEN DictV([p \in (DOMAIN x.v) \ {"_raw"} |-> Visible(x.v[p])])
    ELSE IF IsList(x)
    THEN ListV([i \in DOMAIN x.v |-> Visible(x.v[i])])
    ELSE x

\* C5: compare(a, b) is true if and only if both expose an attribute mapping
\* and the mappings are equal once '_raw' is excluded; so it is reflexive
\* and symmetric on instances, blind to '_raw', false when a side has no
\* attribute mapping, and true across models whose mappings coincide.
C5_CompareIsStructural ==
    epc = "compared" =>
        /\ eq_result <=> (/\ HasDict(first) /\ HasDict(second)
                          /\ Visible(first) = Visible(second))
        /\ eq_result = compare(second, first)
        /\ HasDict(first) => compare(first, first)
        /\ (HasDict(first) /\ HasDict(second)) =>
              eq_result = compare(WithRaw(first, Prim("r3")), second)
        /\ (~HasDict(first) \/ ~HasDict(second)) => ~eq_result

\* a Pet and a Cat with the same attributes and different '_raw' compared equal
C5_Witness ==
    /\ epc = "compared"
    /\ eq_result
    /\ HasDict(first) /\ HasDict(second)
    /\ first.cls # second.cls
    /\ "_raw" \in DOMAIN first.v /\ "_raw" \in DOMAIN second.v
    /\ first.v["_raw"] # second.v["_raw"]
    /\ ~IsNone(first.v["owner"])


---------------------------------------------------------------------------
(* build_models *)

\* the orders in which iteritems() may yield the keys S of a dict
KeyOrders(S) ==
    {q \in [1..Cardinality(S) -> S] : \A i, j \in DOMAIN q : i # j => q[i] # q[j]}

\* The for loop of build_models from position i of order.  Each call of
\* create_model_type makes a new type object; id tells the objects apart
\* (the i-th object made has id i).  An exception ends the loop.
RECURSIVE BuildLoop(_, _, _, _)
BuildLoop(defs, order, i, built) ==
    IF i > Len(order) THEN DictV(built)
    ELSE LET name == order[i]
             made == create_model_type(name, defs[name])
         IN  IF ~IsType(made) THEN made
             ELSE LET under_name == With(built, name, [id |-> i, type |-> made])
                  IN  BuildLoop(defs, order, i + 1,
                                With(under_name, RefName(name), under_name[name]))

\* build_models with the bug of building a second type object for the
\* '$ref' style name instead of registering the first one again
RECURSIVE BuildLoopCopies(_, _, _, _)
BuildLoopCopies(defs, order, i, built) ==
    IF i > Len(order) THEN DictV(built)
    ELSE LET name == order[i]
             made == create_model_type(name, defs[name])
         IN  IF ~IsType(made) THEN made
             ELSE BuildLoopCopies(defs, order, i + 1,
                    With(With(built, name, [id |-> i, type |-> made]),
                         RefName(name), [id |-> i + Len(order), type |-> made]))
build_models_copies(defs, order) == BuildLoopCopies(defs, order, 1, EmptyDict)

\* build_models(definitions_spec), its keys being iterated in order
build_models(defs, order) == BuildLoop(defs, order, 1, EmptyDict)

---------------------------------------------------------------------------
(* SpecBuild: build_models on a '#/definitions' mapping *)

\* the schemas tried for an entry: two objects, a primitive and an array
ModelSpecs ==
    {[type |-> "object", properties |-> [name |-> [type |-> "string"]],
      required |-> {"name"}],
     [type |-> "object", properties |-> [id |-> [type |-> "integer"]]],
     [type |-> "string"],
     [type |-> "array", items |-> [type |-> "string"]]}

\* the keys tried: two plain names and one spelled like a '$ref' style name
ModelNames == {"Pet", "Tag", RefName("Pet")}

RECURSIVE DictsOver(_, _)
DictsOver(names, vals) ==
    IF names = {} THEN {EmptyDict}
    ELSE LET n    == CHOOSE x \in names : TRUE
             rest == DictsOver(names \ {n}, vals)
         IN  rest \cup {With(f, n, val) : f \in rest, val \in vals}

InitBuild ==
    /\ definitions_spec \in DictsOver(ModelNames, ModelSpecs)
    /\ models = EmptyDict
    /\ build_order = <<>>
    /\ bpc = "new"
    /\ InstIdle /\ EqIdle /\ TagIdle /\ RefIdle

BuildModels ==
    /\ bpc = "new"
    /\ \E order \in KeyOrders(DOMAIN definitions_spec) :
         LET r == build_models(definitions_spec, order)
         IN  /\ build_order' = order
             /\ bpc' = IF r.k = "dict" THEN "done" ELSE r.k
             /\ models' = IF r.k = "dict" THEN r.v ELSE EmptyDict
    /\ UNCHANGED definitions_spec
    /\ UNCHANGED <<inst_vars, eq_vars, tag_vars, ref_vars>>

NextBuild == BuildModels

SpecBuild == InitBuild /\ [][NextBuild]_vars

\* C6: in the mapping build_models returns, the bare name N and the name
\* '#/definitions/N' yield the identical descriptor (the same object) for
\* every key N of the definitions, also when another key is itself spelled
\* like a '#/definitions/...' name.
C6_BothNamesSameDescriptor ==
    bpc = "done" =>
        \A n \in DOMAIN definitions_spec :
            /\ n \in DOMAIN models
            /\ RefName(n) \in DOMAIN models
            /\ models[n].id = models[RefName(n)].id

\* C7: build_models completes for every definitions mapping and skips no
\* entry: every key, entries without 'properties' included, produces
\* exactly one descriptor, present in the returned mapping.
C7_EveryEntryBuilt ==
    bpc # "new" =>
        /\ bpc = "done"
        /\ \A n \in DOMAIN definitions_spec :
             Cardinality({models[key].id : key \in
                            {x \in DOMAIN models : models[x].type.v = n}}) = 1


\* n and another key of the definitions claim the same name of the mapping:
\* '#/definitions/n' is itself a key, or n is the '#/definitions/' name of one
Collides(n) ==
    \/ RefName(n) \in DOMAIN definitions_spec
    \/ \E m \in DOMAIN definitions_spec : RefName(m) = n

\* C6 as amended: the two lookups yield the identical descriptor for every
\* key N that shares neither of its two names with another key.
C6_BothNamesSameDescriptorUnlessShared ==
    bpc = "done" =>
        \A n \in DOMAIN definitions_spec :
            ~Collides(n) =>
                /\ n \in DOMAIN models
                /\ RefName(n) \in DOMAIN models
                /\ models[n].id = models[RefName(n)].id
                /\ models[n].type.v = n

\* a mapping built from two entries, one spelled like a '$ref' style name
C6_Witness ==
    /\ bpc = "done"
    /\ DOMAIN definitions_spec = {"Tag", RefName("Pet")}
    /\ models["Tag"].id = models[RefName("Tag")].id
    /\ models[RefName("Pet")].id = models[RefName(RefName("Pet"))].id


---------------------------------------------------------------------------
(* tag_models, is_model *)

\* the body of the for loop of tag_models: model_spec after the iteration
TagEntry(key_name, model_spec) ==
    LET untyped    == "type" \notin DOMAIN model_spec
        model_type == IF untyped THEN "object" ELSE model_spec["type"]
        typed      == IF untyped THEN With(model_spec, "type", "object") ELSE model_spec
    IN  IF model_type = "object" THEN With(typed, MODEL_MARKER, key_name) ELSE typed

\* the loop body with the bug of marking every entry, whatever its type
TagEntryMarksAll(key_name, model_spec) ==
    LET typed == IF "type" \notin DOMAIN model_spec
                 THEN With(model_spec, "type", "object") ELSE model_spec
    IN  With(typed, MODEL_MARKER, key_name)

\* tag_models with that bug
tag_models_marks_all(spec_dict) ==
    IF "definitions" \notin DOMAIN spec_dict THEN spec_dict
    ELSE With(spec_dict, "definitions",
              [n \in DOMAIN spec_dict["definitions"] |->
                    TagEntryMarksAll(n, spec_dict["definitions"][n])])

\* tag_models(spec_dict): spec_dict after the call (it is mutated in place;
\* spec_dict.get('definitions', {}) is an empty loop when the key is absent)
tag_models(spec_dict) ==
    IF "definitions" \notin DOMAIN spec_dict THEN spec_dict
    ELSE With(spec_dict, "definitions",
              [n \in DOMAIN spec_dict["definitions"] |->
                    TagEntry(n, spec_dict["definitions"][n])])

\* is_model(spec)
is_model(fragment) == MODEL_MARKER \in DOMAIN fragment

---------------------------------------------------------------------------
(* SpecTag: tag_models on a spec *)

\* the entries tried: no type, 'object', a primitive, an array; each with
\* and without a marker already there
UntaggedSpecs ==
    {[properties |-> [name |-> [type |-> "string"]]],
     [type |-> "object", properties |-> [name |-> [type |-> "string"]]],
     [type |-> "string"],
     [type |-> "array", items |-> [type |-> "string"]]}
TagInputs == UntaggedSpecs \cup {With(m, MODEL_MARKER, "Old") : m \in UntaggedSpecs}

SpecDicts ==
    {[swagger |-> "2.0"]}
    \cup {[swagger |-> "2.0", definitions |-> d] :
            d \in DictsOver({"Pet", "Tag", "Id"}, TagInputs)}

InitTag ==
    /\ tag_dict \in SpecDicts
    /\ tag_orig = tag_dict
    /\ tpc = "new"
    /\ InstIdle /\ EqIdle /\ BuildIdle /\ RefIdle

TagModels ==
    /\ tpc = "new"
    /\ tag_dict' = tag_models(tag_dict)
    /\ tpc' = "tagged"
    /\ UNCHANGED tag_orig
    /\ UNCHANGED <<inst_vars, eq_vars, build_vars, ref_vars>>

NextTag == TagModels

SpecTag == InitTag /\ [][NextTag]_vars

OrigEntries == IF "definitions" \in DOMAIN tag_orig THEN tag_orig["definitions"] ELSE EmptyDict

\* C8: after tag_models, every entry of 'definitions' that had no type has
\* type 'object' and the marker with its own name; every entry that had type
\* 'object' has the marker with its own name; no entry of another type is
\* given the marker; and is_model is true exactly of the fragments that
\* carry the marker.
C8_OnlyObjectsTagged ==
    tpc = "tagged" =>
        /\ DOMAIN tag_dict = DOMAIN tag_orig
        /\ "definitions" \in DOMAIN tag_orig =>
              DOMAIN tag_dict["definitions"] = DOMAIN OrigEntries
        /\ \A n \in DOMAIN OrigEntries :
             LET before == OrigEntries[n]
                 after  == tag_dict["definitions"][n]
             IN  /\ "type" \notin DOMAIN before =>
                       /\ "type" \in DOMAIN after /\ after["type"] = "object"
                       /\ MODEL_MARKER \in DOMAIN after /\ after[MODEL_MARKER] = n
                 /\ ("type" \in DOMAIN before /\ before["type"] = "object") =>
                       /\ MODEL_MARKER \in DOMAIN after /\ after[MODEL_MARKER] = n
                 /\ ("type" \in DOMAIN before /\ before["type"] # "object") =>
                       /\ after = before
                       /\ is_model(after) <=> (MODEL_MARKER \in DOMAIN before)
                 /\ is_model(after) <=> (MODEL_MARKER \in DOMAIN after)
                 /\ is_model(after) <=>
                       \/ "type" \notin DOMAIN before
                       \/ before["type"] = "object"
                       \/ MODEL_MARKER \in DOMAIN before

\* a tagged spec with an untyped entry, an object that carried another
\* marker, and a primitive entry
C8_Witness ==
    /\ tpc = "tagged"
    /\ DOMAIN OrigEntries = {"Pet", "Tag", "Id"}
    /\ "type" \notin DOMAIN OrigEntries["Pet"]
    /\ OrigEntries["Tag"] =
          With([type |-> "object", properties |-> [name |-> [type |-> "string"]]],
               MODEL_MARKER, "Old")
    /\ OrigEntries["Id"] = [type |-> "string"]
    /\ is_model(tag_dict["definitions"]["Pet"])
    /\ tag_dict["definitions"]["Tag"][MODEL_MARKER] = "Tag"
    /\ ~is_model(tag_dict["definitions"]["Id"])


---------------------------------------------------------------------------
(* fix_malformed_model_refs *)

IsStr(x)      == x.k = "prim"
is_dict_like(x) == x.k = "dict"
is_list_like(x) == x.k = "list"

\* descend with the bug of not descending into sequences
RECURSIVE descend_skips_lists(_, _)
descend_skips_lists(fragment, model_names) ==
    IF is_dict_like(fragment)
    THEN DictV([key \in DOMAIN fragment.v |->
                  LET val == fragment.v[key]
                  IN  IF key = "$ref" /\ IsStr(val) /\ val.v \in model_names
                      THEN Prim(RefName(val.v))
                      ELSE descend_skips_lists(val, model_names)])
    ELSE fragment

\* descend with the bug of rewriting every '$ref' string, declared or not
RECURSIVE descend_any_ref(_, _)
descend_any_ref(fragment, model_names) ==
    IF is_dict_like(fragment)
    THEN DictV([key \in DOMAIN fragment.v |->
                  LET val == fragment.v[key]
                  IN  IF key = "$ref" /\ IsStr(val)
                      THEN Prim(RefName(val.v))
                      ELSE descend_any_ref(val, model_names)])
    ELSE IF is_list_like(fragment)
    THEN ListV([i \in DOMAIN fragment.v |->
                  descend_any_ref(fragment.v[i], model_names)])
    ELSE fragment

\* descend(fragment): fragment after the call (it is mutated in place).  A
\* '$ref' entry whose value is one of model_names is rewritten, and every
\* value is descended into as it was before the rewrite (a string then, so
\* nothing happens to it); an entry is independent of the iteration order.
RECURSIVE descend(_, _)
descend(fragment, model_names) ==
    IF is_dict_like(fragment)
    THEN DictV([key \in DOMAIN fragment.v |->
                  LET val == fragment.v[key]
                  IN  IF key = "$ref" /\ IsStr(val) /\ val.v \in model_names
                      THEN Prim(RefName(val.v))
                      ELSE descend(val, model_names)])
    ELSE IF is_list_like(fragment)
    THEN ListV([i \in DOMAIN fragment.v |-> descend(fragment.v[i], model_names)])
    ELSE fragment

\* [model_name for model_name in spec.get('definitions', {})]
DefinedNames(spec) ==
    IF "definitions" \in DOMAIN spec.v THEN DOMAIN spec.v["definitions"].v ELSE {}

\* fix_malformed_model_refs(spec): spec after the call
fix_malformed_model_refs(spec) == descend(spec, DefinedNames(spec))

---------------------------------------------------------------------------
(* SpecRefs: fix_malformed_model_refs, called up to MaxRuns times *)

\* the strings tried as values: a declared name, its '$ref' style name, and
\* a name no entry declares
RefStrings == {"Pet", RefName("Pet"), "Unknown"}

\* one more level of mapping or sequence around a fragment
Wrapped(x) ==
    {ListV(<<x>>),
     ListV(<<Prim("Pet"), x>>),
     DictV("$ref" :> x),
     DictV("items" :> x),
     DictV("$ref" :> Prim("Pet") @@ "items" :> x)}

\* the fragments with at most depth levels around a string
RECURSIVE Fragments(_)
Fragments(depth) ==
    IF depth = 0 THEN {Prim(str) : str \in RefStrings}
    ELSE LET inner == Fragments(depth - 1)
         IN  inner \cup UNION {Wrapped(x) : x \in inner}

\* every entry of the definitions refers to Tag by its bare name
TagRefSpec == DictV("properties" :> DictV("tag" :> DictV("$ref" :> Prim("Tag"))))

RawSpecs ==
    {DictV("paths" :> body) : body \in Fragments(MaxDepth)}
    \cup {DictV("paths" :> body @@ "definitions" :> DictV(defs)) :
            body \in Fragments(MaxDepth),
            defs \in DictsOver({"Pet", "Tag", RefName("Pet")}, {TagRefSpec})}

InitRefs ==
    /\ ref_spec \in RawSpecs
    /\ ref_orig = ref_spec
    /\ ref_prev = ref_spec
    /\ runs = 0
    /\ InstIdle /\ EqIdle /\ BuildIdle /\ TagIdle

FixRefs ==
    /\ runs < MaxRuns
    /\ ref_prev' = ref_spec
    /\ ref_spec' = fix_malformed_model_refs(ref_spec)
    /\ runs' = runs + 1
    /\ UNCHANGED ref_orig
    /\ UNCHANGED <<inst_vars, eq_vars, build_vars, tag_vars>>

NextRefs == FixRefs

SpecRefs == InitRefs /\ [][NextRefs]_vars

\* a string already of the form '#/definitions/<name>'
IsRefName(str) ==
    \E base \in {"Pet", "Tag", "Unknown", RefName("Pet"), RefName("Tag")} :
        str = RefName(base)

\* What C9 says of a fragment before and after one run: a '$ref' entry whose
\* value was a declared name holds '#/definitions/<name>'; a '$ref' entry
\* whose value matched no declared name, or was already of the
\* '#/definitions/' form, is unchanged; so is every other entry, at every
\* depth of mappings and sequences.
RECURSIVE RewrittenAsClaimed(_, _, _)
RewrittenAsClaimed(before, after, names) ==
    IF is_dict_like(before)
    THEN /\ is_dict_like(after)
         /\ DOMAIN after.v = DOMAIN before.v
         /\ \A key \in DOMAIN before.v :
              LET was == before.v[key]
                  now == after.v[key]
              IN  IF key = "$ref" /\ IsStr(was)
                  THEN /\ IsStr(now)
                       /\ was.v \in names => now.v = RefName(was.v)
                       /\ was.v \notin names => now.v = was.v
                       /\ IsRefName(was.v) => now.v = was.v
                  ELSE RewrittenAsClaimed(was, now, names)
    ELSE IF is_list_like(before)
    THEN /\ is_list_like(after)
         /\ Len(after.v) = Len(before.v)
         /\ \A i \in DOMAIN before.v : RewrittenAsClaimed(before.v[i], after.v[i], names)
    ELSE after = before

\* C9: after fix_malformed_model_refs, at every depth, every '$ref' whose
\* value was a declared model name holds '#/definitions/<name>' and every
\* other entry, '$ref' values already in '#/definitions/' form included, is
\* unchanged.
C9_OnlyBareRefsRewritten ==
    runs = 1 => RewrittenAsClaimed(ref_orig, ref_spec, DefinedNames(ref_orig))

\* C10: fix_malformed_model_refs is idempotent: a second run on the already
\* normalized document changes nothing, whatever names 'definitions' holds.
C10_FixRefsIdempotent ==
    runs >= 2 => ref_spec = ref_prev


\* The rule of C9 as amended: a '$ref' entry is rewritten exactly when its
\* value was a declared name, whatever that name looks like.
RECURSIVE RewrittenByName(_, _, _)
RewrittenByName(before, after, names) ==
    IF is_dict_like(before)
    THEN /\ is_dict_like(after)
         /\ DOMAIN after.v = DOMAIN before.v
         /\ \A key \in DOMAIN before.v :
              LET was == before.v[key]
                  now == after.v[key]
              IN  IF key = "$ref" /\ IsStr(was)
                  THEN /\ IsStr(now)
                       /\ was.v \in names => now.v = RefName(was.v)
                       /\ was.v \notin names => now.v = was.v
                  ELSE RewrittenByName(was, now, names)
    ELSE IF is_list_like(before)
    THEN /\ is_list_like(after)
         /\ Len(after.v) = Len(before.v)
         /\ \A i \in DOMAIN before.v : RewrittenByName(before.v[i], after.v[i], names)
    ELSE after = before

\* C9 as amended: after one run, at every depth, every '$ref' whose value
\* was a declared model name holds '#/definitions/<name>', also when that
\* name is itself of the '#/definitions/' form, and every other entry is
\* unchanged.
C9_DeclaredRefsRewritten ==
    runs = 1 => RewrittenByName(ref_orig, ref_spec, DefinedNames(ref_orig))

\* one run over a spec that declares Pet: a bare '$ref' in a mapping was
\* rewritten, and a canonical one in a sequence below it was left alone
C9_Witness ==
    /\ runs = 1
    /\ DefinedNames(ref_orig) = {"Pet", "Tag"}
    /\ ref_orig.v["paths"] =
          DictV("$ref" :> Prim("Pet")
                @@ "items" :> ListV(<<Prim("Pet"), DictV("$ref" :> Prim(RefName("Pet")))>>))
    /\ ref_spec.v["paths"] =
          DictV("$ref" :> Prim(RefName("Pet"))
                @@ "items" :> ListV(<<Prim("Pet"), DictV("$ref" :> Prim(RefName("Pet")))>>))

\* no declared name is the '#/definitions/' name of a declared name
NoNameIsRefNameOfAnother(names) == \A n \in names : RefName(n) \notin names

\* C10 as amended: a second run changes nothing whenever no declared name
\* is the '#/definitions/' name of another declared name.
C10_FixRefsIdempotentUnlessShared ==
    (runs >= 2 /\ NoNameIsRefNameOfAnother(DefinedNames(ref_orig))) =>
        ref_spec = ref_prev

\* two runs over a spec whose only declared name is of the '#/definitions/'
\* form: the first rewrote a '$ref', the second changed nothing
C10_Witness ==
    /\ runs = 2
    /\ DefinedNames(ref_orig) = {RefName("Pet")}
    /\ ref_spec # ref_orig
    /\ ref_spec = ref_prev
    /\ ref_orig.v["paths"] = DictV("$ref" :> Prim(RefName("Pet")))


====
